---- MODULE Spec2Model ----
(***************************************************************************)
(* Model of src/app.py: the in-memory service registry (the dict           *)
(* `services`), its REST handlers, and the WebSocket fan-out                *)
(* (`ws_clients`, `broadcast`, `ws_endpoint`).                              *)
(*                                                                         *)
(* Two specifications share the state:                                     *)
(*   Spec      every handler runs to completion as one step (requests      *)
(*             served one after another);                                  *)
(*   SpecConc  handlers run in threads and interleave statement by         *)
(*             statement (the threaded server, no lock in the source).     *)
(***************************************************************************)
EXTENDS Integers, Sequences, FiniteSets, TLC

\* ---------------------------------------------------------------- bounds
NumIds == 2          \* how many distinct uuid4 values the model can draw
MaxClock == 1        \* the wall clock runs over 0..MaxClock
NumHandles == 2      \* WebSocket connection objects
MaxOps == 3          \* handler invocations in one behaviour
NumThreads == 2      \* request threads of the server (SpecConc)

\* str(uuid.uuid4()): the strings the generator can return
UuidNames == <<"u1", "u2", "u3", "u4">>
Ids == {UuidNames[i] : i \in 1..NumIds}
Handles == 1..NumHandles
Threads == 1..NumThreads
Times == 0..MaxClock

\* ------------------------------------------------------------ the values
\* Field values a request may carry.  "" is the empty (falsy) string.
TypeVals == {"", "clinic", "shelter"}

required == <<"type", "name", "address">>
\* A slip patchable could have: "id" among the keys a patch copies.
patchable_WithId == <<"type", "name", "address", "hours", "phone", "id">>

patchable == <<"type", "name", "address", "hours", "phone">>

\* A JSON value is written as a string: a JSON string as itself, and the
\* JSON number 7, which is not the JSON string "7", as Seven.
Seven == "<number 7>"

\* The body with exactly the required keys K, each set to a non-empty value.
Given(K) ==
  [k \in K |-> IF k = "type" THEN "clinic" ELSE "x"]

\* request.get_json(silent=True) or {}: a dict, whose DOMAIN is its key
\* set.  The bodies requests carry: every subset of the required keys
\* present; required keys present but empty; the optional keys present,
\* empty and absent; a key the handlers do not know ("id"); a value that
\* is not a string (the handlers do not look at the types of the values).
Bodies ==
  { Given(K) : K \in SUBSET {"type", "name", "address"} }
  \cup { [type |-> "shelter", name |-> "x", address |-> "x",
          hours |-> "x", phone |-> "x"],
         [type |-> "clinic", name |-> "", address |-> "x", phone |-> "x"],
         [type |-> "", name |-> "x", address |-> ""],
         [hours |-> "x"],
         [hours |-> "", id |-> "zz"],
         [phone |-> Seven, type |-> "shelter"] }

\* The heap slot of a dict object that does not exist (not yet created,
\* or garbage).
NoObj == [id |-> "", type |-> "", name |-> "", address |-> "", hours |-> "",
          phone |-> "", updatedAt |-> 0]

\* Python truthiness of data.get(k): a missing key gives None, "" is falsy.
Truthy(data, k) == k \in DOMAIN data /\ data[k] # ""

\* data.get(k, "")
GetOr(data, k) == IF k \in DOMAIN data THEN data[k] ELSE ""

VARIABLES
  services,    \* the dict `services`: its keys in insertion order
  heap,        \* the Service dict objects, by the uuid they were made for
  issued,      \* the values uuid4() has returned so far
  clock,       \* the wall clock datetime.now() reads
  ws_clients,  \* the set `ws_clients`
  wspc,        \* where each connection's ws_endpoint call stands
  alive,       \* whether a send on the connection succeeds
  inbox,       \* the messages each connection's peer has received
  resp,        \* the last completed request and its response
  nops,        \* handler invocations so far
  created,     \* history: the ids create_service has returned, in order
  deleted,     \* history: the ids delete_service has removed
  pc,          \* SpecConc: the statement each request thread is at
  loc          \* SpecConc: each request thread's local variables

vars == <<services, heap, issued, clock, ws_clients, wspc, alive, inbox,
          resp, nops, created, deleted, pc, loc>>

\* the request threads' state, which Spec leaves alone
threads == <<pc, loc>>

\* what the handlers of the registry never touch
feed == <<ws_clients, wspc, alive, inbox>>

\* ------------------------------------------------- the dict `services`
\* set(services): the keys
DictKeys(d) == {d[i] : i \in 1..Len(d)}

\* sid in services
DictHas(d, k) == \E i \in 1..Len(d) : d[i] = k

\* A slip DictSet could have: the key taken out and put back last, as
\* OrderedDict.move_to_end does.
DictSet_MoveToEnd(d, k) == Append(SelectSeq(d, LAMBDA x : x # k), k)

\* services[sid] = service: a new key goes last, a present key keeps its place
DictSet(d, k) == IF DictHas(d, k) THEN d ELSE Append(d, k)

\* A slip DictDel could have: services.popitem(), which drops the key
\* inserted last.
DictDel_PopItem(d, k) == SubSeq(d, 1, Len(d) - 1)

\* del services[sid]
DictDel(d, k) == SelectSeq(d, LAMBDA x : x # k)

\* list(services.values())
DictValues(d, h) == [i \in 1..Len(d) |-> h[d[i]]]

\* A slip DictGet could have: a lookup that stops one short of the end.
DictGet_MissLast(d, h, k) ==
  IF \E i \in 1..Len(d) - 1 : d[i] = k THEN h[k] ELSE NoObj

\* services.get(sid): the object, or NoObj for None
DictGet(d, h, k) == IF DictHas(d, k) THEN h[k] ELSE NoObj

\* ------------------------------------------------------ pure functions
\* now_iso(): the clock reading; isoformat() of a UTC datetime orders as
\* the instants do, so the reading itself stands for the string.
now_iso(c) == c

\* A slip Missing could have: `k not in data`, which lets "" through.
Missing_AbsentOnly(data) == SelectSeq(required, LAMBDA k : k \notin DOMAIN data)

\* missing = [k for k in required if not data.get(k)]
Missing(data) == SelectSeq(required, LAMBDA k : ~Truthy(data, k))

\* the dict literal of create_service
NewService(sid, data, now) ==
  [id |-> sid, type |-> data["type"], name |-> data["name"],
   address |-> data["address"], hours |-> GetOr(data, "hours"),
   phone |-> GetOr(data, "phone"), updatedAt |-> now]

\* the value put_service assigns to field k
PutValue(data, k) ==
  IF k \in {"type", "name", "address"} THEN data[k] ELSE GetOr(data, k)

\* service[k] = v
SetField(obj, k, v) == [obj EXCEPT ![k] = v]

\* A slip PutFields could have: assigning only the keys the body carries,
\* as patch_service does.
PutFields_Merge(obj, data, now) ==
  LET W(o, k) == IF k \in DOMAIN data THEN SetField(o, k, data[k]) ELSE o
  IN  SetField(W(W(W(W(W(obj, "type"), "name"), "address"), "hours"),
                 "phone"), "updatedAt", now)

\* the assignments of put_service, in order, on the stored object
PutFields(obj, data, now) ==
  LET a1 == SetField(obj, "type", PutValue(data, "type"))
      a2 == SetField(a1, "name", PutValue(data, "name"))
      a3 == SetField(a2, "address", PutValue(data, "address"))
      a4 == SetField(a3, "hours", PutValue(data, "hours"))
      a5 == SetField(a4, "phone", PutValue(data, "phone"))
  IN  SetField(a5, "updatedAt", now)

\* A slip PatchField could have: data.get(k, ""), which empties the
\* fields the body does not carry.
PatchField_Reset(obj, data, k) == SetField(obj, k, GetOr(data, k))

\* one turn of the loop of patch_service
PatchField(obj, data, k) ==
  IF k \in DOMAIN data THEN SetField(obj, k, data[k]) ELSE obj

\* the loop of patch_service over the first n keys of `patchable`
RECURSIVE PatchLoop(_, _, _)
PatchLoop(obj, data, n) ==
  IF n = 0 THEN obj
  ELSE PatchField(PatchLoop(obj, data, n - 1), data, patchable[n])

\* patch_service's writes on the stored object
PatchFields(obj, data, now) ==
  SetField(PatchLoop(obj, data, Len(patchable)), "updatedAt", now)

\* json.dumps(obj, sort_keys=True, separators=(",", ":")): the key/value
\* pairs in sorted key order
CanonicalJson(obj) ==
  << <<"address", obj.address>>, <<"hours", obj.hours>>, <<"id", obj.id>>,
     <<"name", obj.name>>, <<"phone", obj.phone>>, <<"type", obj.type>>,
     <<"updatedAt", obj.updatedAt>> >>

\* A slip compute_etag could have: a digest of the record without its id.
compute_etag_NoId(obj) == <<"md5", CanonicalJson([obj EXCEPT !.id = ""])>>

\* hashlib.md5(raw).hexdigest(), taken to be collision free
compute_etag(obj) == <<"md5", CanonicalJson(obj)>>

\* graphene.String().serialize: str(value), which leaves a string as it
\* is and writes the number 7 as the string "7"
Str(v) == IF v = Seven THEN "7" ELSE v

\* A ServiceType object as the GraphQL response carries it, every field
\* selected: each field through graphene.String (updatedAt is a string
\* already)
Serialize(obj) ==
  [obj EXCEPT !.id = Str(@), !.type = Str(@), !.name = Str(@),
              !.address = Str(@), !.hours = Str(@), !.phone = Str(@)]

\* no If-None-Match header
NoHeader == <<>>

\* the messages of the event feed: json.dumps copies the dict's content
ConnectedMsg == [event |-> "connected", service |-> NoObj]
\* A slip CreatedMsg could have: the event built from the request's fields,
\* before the id and the stamp are there.
CreatedMsg_Unstamped(service) ==
  [event |-> "serviceCreated",
   service |-> [service EXCEPT !.id = "", !.updatedAt = 0]]

CreatedMsg(service) == [event |-> "serviceCreated", service |-> service]

\* --------------------------------------------------------- responses
\* A request (op, sid, data, inm) and the response to it: the status, the
\* JSON body (a record, a list of records or the "fields" of an error) and
\* the ETag header.
NoResp == [op |-> "none", sid |-> "", data |-> <<>>, inm |-> NoHeader,
           status |-> 0, body |-> NoObj, items |-> <<>>, fields |-> <<>>,
           etag |-> NoHeader]

Resp(op, sid, data, status) ==
  [NoResp EXCEPT !.op = op, !.sid = sid, !.data = data, !.status = status]

\* The locals of a handler: the request (op, sid, data, inm), `service` (a
\* reference to a dict object, "" for none), the value now_iso() returned,
\* the loop position, etag, and broadcast's msg, snapshot remainder and
\* `dead`.  `pre` is history: what the record held when the handler made
\* the first of its stores, kept until it has made the last.
NoLoc == [op |-> "none", sid |-> "", data |-> <<>>, inm |-> NoHeader,
          service |-> "", now |-> 0, i |-> 0, etag |-> NoHeader,
          msg |-> NoObj, todo |-> {}, dead |-> {}, pre |-> NoObj]

\* -------------------------------------------------------------- Init
Init ==
  /\ services = <<>>
  /\ heap = [i \in Ids |-> NoObj]
  /\ issued = {}
  /\ clock = 0
  /\ ws_clients = {}
  /\ wspc = [h \in Handles |-> "new"]
  /\ alive = [h \in Handles |-> TRUE]
  /\ inbox = [h \in Handles |-> <<>>]
  /\ resp = NoResp
  /\ nops = 0
  /\ created = <<>>
  /\ deleted = {}
  /\ pc = [t \in Threads |-> "idle"]
  /\ loc = [t \in Threads |-> NoLoc]

\* The wall clock advances between any two steps.
Tick ==
  /\ clock < MaxClock
  /\ clock' = clock + 1
  /\ UNCHANGED <<services, heap, issued, feed, resp, nops, created,
                 deleted, threads>>

\* broadcast(event): every member of the snapshot is sent the message; a
\* send that raises puts the member in `dead`, and the dead are discarded.
BroadcastInbox(msg) ==
  [h \in Handles |->
     IF h \in ws_clients /\ alive[h] THEN Append(inbox[h], msg) ELSE inbox[h]]

\* A slip BroadcastClients could have: `dead` collected and never discarded.
BroadcastClients_KeepDead == ws_clients

BroadcastClients == ws_clients \ {h \in ws_clients : ~alive[h]}

\* A slip uuid4 could have: an id made from the number of stored records.
uuid4_FromCount ==
  IF Len(services) < NumIds THEN {UuidNames[Len(services) + 1]} ELSE {}

\* str(uuid.uuid4()): a value never returned before.  The handlers never
\* look into an id, so which fresh value comes is immaterial and the model
\* draws them in the order of UuidNames; no value is left once NumIds are out.
uuid4 ==
  IF Cardinality(issued) < NumIds
  THEN {UuidNames[Cardinality(issued) + 1]}
  ELSE {}

\* The <sid> of a request: an id the registry holds or has held, or a
\* string that was never an id.
UnknownId == "zz"
RequestIds == DictKeys(services) \cup deleted \cup {UnknownId}

\* POST /api/v1/services
CreateService(data) ==
  /\ nops < MaxOps
  /\ nops' = nops + 1
  /\ IF Missing(data) # <<>>
     THEN /\ resp' = [Resp("create", "", data, 400)
                         EXCEPT !.fields = Missing(data)]
          /\ UNCHANGED <<services, heap, issued, feed, created>>
     ELSE \E sid \in uuid4 :
            LET service == NewService(sid, data, now_iso(clock)) IN
            /\ issued' = issued \cup {sid}
            /\ heap' = [heap EXCEPT ![sid] = service]
            /\ services' = DictSet(services, sid)
            /\ inbox' = BroadcastInbox(CreatedMsg(service))
            /\ ws_clients' = BroadcastClients
            /\ resp' = [Resp("create", sid, data, 201) EXCEPT !.body = service]
            /\ created' = Append(created, sid)
            /\ UNCHANGED <<wspc, alive>>
  /\ UNCHANGED <<clock, deleted, threads>>

\* request.args.get("type"): None, written <<>>, when the query string has
\* no `type`; else <<v>> for its value v, which may be empty (?type=).
TypeArgs == {<<>>} \cup {<<v>> : v \in TypeVals}

\* `if t:` on such a value: None and "" are falsy
Given1(t) == t # <<>> /\ t[1] # ""

\* GET /api/v1/services
ListServices(t) ==
  /\ nops < MaxOps
  /\ nops' = nops + 1
  /\ LET items == DictValues(services, heap)
         shown == IF Given1(t) THEN SelectSeq(items, LAMBDA s : s.type = t[1])
                  ELSE items
     IN  resp' = [Resp("list", "", t, 200) EXCEPT !.items = shown]
  /\ UNCHANGED <<services, heap, issued, clock, feed, created, deleted,
                 threads>>

\* GET /debug/services
DebugServices ==
  /\ nops < MaxOps
  /\ nops' = nops + 1
  /\ resp' = [Resp("debug", "", <<>>, 200)
                 EXCEPT !.items = DictValues(services, heap)]
  /\ UNCHANGED <<services, heap, issued, clock, feed, created, deleted,
                 threads>>

\* The records a client has been shown: those stored, the last response's
\* body, and those carried by the events received.
KnownRecords ==
  {heap[k] : k \in issued} \cup {resp.body}
  \cup UNION { {inbox[h][i].service : i \in 1..Len(inbox[h])} : h \in Handles }

\* The If-None-Match values a client sends: none, or the fingerprint of a
\* record it has been shown.
Preconditions == {NoHeader} \cup {compute_etag(r) : r \in KnownRecords}

\* GET /api/v1/services/<sid>
GetService(sid, inm) ==
  /\ nops < MaxOps
  /\ nops' = nops + 1
  /\ LET service == DictGet(services, heap, sid)
         etag == compute_etag(service)
         req == [Resp("get", sid, <<>>, 0) EXCEPT !.inm = inm]
     IN  resp' =
           IF service = NoObj THEN [req EXCEPT !.status = 404]
           ELSE IF inm # NoHeader /\ inm = etag
                THEN [req EXCEPT !.status = 304, !.etag = etag]
                ELSE [req EXCEPT !.status = 200, !.body = service,
                                 !.etag = etag]
  /\ UNCHANGED <<services, heap, issued, clock, feed, created, deleted,
                 threads>>

\* POST /graphql, { services(type: t) { ...every field } }; t is <<>> when
\* the argument is left out
GraphqlServices(t) ==
  /\ nops < MaxOps
  /\ nops' = nops + 1
  /\ LET items == DictValues(services, heap)
         shown == IF Given1(t) THEN SelectSeq(items, LAMBDA s : s.type = t[1])
                  ELSE items
     IN  resp' = [Resp("services", "", t, 200)
                    EXCEPT !.items = [i \in 1..Len(shown) |-> Serialize(shown[i])]]
  /\ UNCHANGED <<services, heap, issued, clock, feed, created, deleted,
                 threads>>

\* POST /graphql, { service(id: sid) { ...every field } }; null (NoObj)
\* when the resolver returns None
GraphqlService(sid) ==
  /\ nops < MaxOps
  /\ nops' = nops + 1
  /\ resp' = [Resp("service", sid, <<>>, 200)
                 EXCEPT !.body = Serialize(DictGet(services, heap, sid))]
  /\ UNCHANGED <<services, heap, issued, clock, feed, created, deleted,
                 threads>>

\* PUT /api/v1/services/<sid>
PutService(sid, data) ==
  /\ nops < MaxOps
  /\ nops' = nops + 1
  /\ IF ~DictHas(services, sid)
     THEN /\ resp' = Resp("put", sid, data, 404)
          /\ UNCHANGED <<services, heap>>
     ELSE IF Missing(data) # <<>>
     THEN /\ resp' = [Resp("put", sid, data, 400)
                         EXCEPT !.fields = Missing(data)]
          /\ UNCHANGED <<services, heap>>
     ELSE LET service == PutFields(heap[sid], data, now_iso(clock)) IN
          /\ heap' = [heap EXCEPT ![sid] = service]
          /\ services' = DictSet(services, sid)
          /\ resp' = [Resp("put", sid, data, 200) EXCEPT !.body = service]
  /\ UNCHANGED <<issued, clock, feed, created, deleted, threads>>

\* PATCH /api/v1/services/<sid>
PatchService(sid, data) ==
  /\ nops < MaxOps
  /\ nops' = nops + 1
  /\ IF DictGet(services, heap, sid) = NoObj
     THEN /\ resp' = Resp("patch", sid, data, 404)
          /\ UNCHANGED <<services, heap>>
     ELSE LET service == PatchFields(heap[sid], data, now_iso(clock)) IN
          /\ heap' = [heap EXCEPT ![sid] = service]
          /\ services' = DictSet(services, sid)
          /\ resp' = [Resp("patch", sid, data, 200) EXCEPT !.body = service]
  /\ UNCHANGED <<issued, clock, feed, created, deleted, threads>>

\* A slip DeleteService could have: the removal announced to the
\* subscribers, as the creation is.
DeleteService_Announcing(sid) ==
  /\ nops < MaxOps
  /\ nops' = nops + 1
  /\ IF ~DictHas(services, sid)
     THEN /\ resp' = Resp("delete", sid, <<>>, 404)
          /\ UNCHANGED <<services, heap, deleted, ws_clients, inbox>>
     ELSE /\ services' = DictDel(services, sid)
          /\ heap' = [heap EXCEPT ![sid] = NoObj]
          /\ deleted' = deleted \cup {sid}
          /\ inbox' = BroadcastInbox([event |-> "serviceDeleted",
                                      service |-> heap[sid]])
          /\ ws_clients' = BroadcastClients
          /\ resp' = Resp("delete", sid, <<>>, 204)
  /\ UNCHANGED <<issued, clock, wspc, alive, created, threads>>

\* DELETE /api/v1/services/<sid>; the dict object, referenced by nothing
\* else once the handler has returned, is freed.
DeleteService(sid) ==
  /\ nops < MaxOps
  /\ nops' = nops + 1
  /\ IF ~DictHas(services, sid)
     THEN /\ resp' = Resp("delete", sid, <<>>, 404)
          /\ UNCHANGED <<services, heap, deleted>>
     ELSE /\ services' = DictDel(services, sid)
          /\ heap' = [heap EXCEPT ![sid] = NoObj]
          /\ deleted' = deleted \cup {sid}
          /\ resp' = Resp("delete", sid, <<>>, 204)
  /\ UNCHANGED <<issued, clock, feed, created, threads>>

\* ws_endpoint up to its first receive(), the upgrade of the connection
\* (101) behind it: join the set, send the acknowledgement; or the peer is
\* gone already, the send raises and the finally clause discards the handle.
WsConnect(h) ==
  /\ wspc[h] = "new"
  /\ nops < MaxOps
  /\ nops' = nops + 1
  /\ resp' = Resp("ws", "", <<>>, 101)
  /\ \/ /\ ws_clients' = ws_clients \cup {h}
        /\ inbox' = [inbox EXCEPT ![h] = Append(@, ConnectedMsg)]
        /\ wspc' = [wspc EXCEPT ![h] = "recv"]
        /\ UNCHANGED alive
     \/ /\ alive' = [alive EXCEPT ![h] = FALSE]
        /\ ws_clients' = ws_clients \ {h}
        /\ wspc' = [wspc EXCEPT ![h] = "done"]
        /\ UNCHANGED inbox
  /\ UNCHANGED <<services, heap, issued, clock, created, deleted, threads>>

\* The peer closes or the transport fails: from now on send() raises and
\* receive() ends.
ConnLost(h) ==
  /\ wspc[h] = "recv"
  /\ alive[h]
  /\ alive' = [alive EXCEPT ![h] = FALSE]
  /\ UNCHANGED <<services, heap, issued, clock, ws_clients, wspc, inbox,
                 resp, nops, created, deleted, threads>>

\* ws_endpoint from receive() on: the loop ends (None, or an exception)
\* and the finally clause discards the handle.
WsEnd(h) ==
  /\ wspc[h] = "recv"
  /\ ~alive[h]
  /\ ws_clients' = ws_clients \ {h}
  /\ wspc' = [wspc EXCEPT ![h] = "done"]
  /\ UNCHANGED <<services, heap, issued, clock, alive, inbox, resp, nops,
                 created, deleted, threads>>

\* Spec: the handlers one at a time, each to completion.
Next ==
  \/ Tick
  \/ \E data \in Bodies : CreateService(data)
  \/ \E t \in TypeArgs : ListServices(t)
  \/ DebugServices
  \/ \E sid \in RequestIds, inm \in Preconditions : GetService(sid, inm)
  \/ \E t \in TypeArgs : GraphqlServices(t)
  \/ \E sid \in RequestIds : GraphqlService(sid)
  \/ \E sid \in RequestIds, data \in Bodies : PutService(sid, data)
  \/ \E sid \in RequestIds, data \in Bodies : PatchService(sid, data)
  \/ \E sid \in RequestIds : DeleteService(sid)
  \/ \E h \in Handles : WsConnect(h)
  \/ \E h \in Handles : ConnLost(h)
  \/ \E h \in Handles : WsEnd(h)

Spec == Init /\ [][Next]_vars

\* ====================================================== SpecConc
\* The handlers statement by statement.  The server runs every request in
\* a thread of its own and the source takes no lock, so the threads
\* interleave between any two accesses to `services`, a record, the clock
\* or `ws_clients`.  Statements that touch only locals are fused with the
\* access before them.  The labels are the source lines.

\* The bodies of the requests of SpecConc.
ConcBodies ==
  { Given({"type", "name", "address"}),
    [type |-> "shelter", name |-> "x", address |-> "x",
     hours |-> "x", phone |-> "x"],
    [hours |-> "x"] }

\* The If-None-Match values of the requests of SpecConc.
ConcPreconditions ==
  {NoHeader} \cup {compute_etag(heap[k]) : k \in DictKeys(services)}

\* the threads inside a handler
Busy == Cardinality({t \in Threads : pc[t] # "idle"})

\* A dict object lives while the registry or a handler's `service` refers
\* to it (reference counting); the slot of a freed object is NoObj.
Sweep(h, d, l) ==
  [o \in Ids |->
     IF o \in DictKeys(d) \/ \E t \in Threads : l[t].service = o
     THEN h[o] ELSE NoObj]

\* the first statement of each handler
First(op) ==
  CASE op = "create" -> "create60"
    [] op = "get" -> "get99"
    [] op = "put" -> "put123"
    [] op = "patch" -> "patch146"
    [] op = "delete" -> "del162"

\* The server accepts a request and hands it to thread t.
Begin(t, op, sid, data, inm) ==
  /\ pc[t] = "idle"
  /\ nops + Busy < MaxOps
  /\ pc' = [pc EXCEPT ![t] = First(op)]
  /\ loc' = [loc EXCEPT ![t] = [NoLoc EXCEPT !.op = op, !.sid = sid,
                                            !.data = data, !.inm = inm]]
  /\ UNCHANGED <<services, heap, issued, clock, feed, resp, nops, created,
                 deleted>>

\* Thread t moves on to `label`, its locals becoming l.
Goto(t, label, l) ==
  /\ pc' = [pc EXCEPT ![t] = label]
  /\ loc' = [loc EXCEPT ![t] = l]

\* Thread t returns the response r (status 500: an exception nobody
\* caught); its locals go, and with them the last reference to an object
\* that is no longer stored.
Return(t, r) ==
  /\ resp' = r
  /\ nops' = nops + 1
  /\ pc' = [pc EXCEPT ![t] = "idle"]
  /\ loc' = [loc EXCEPT ![t] = NoLoc]

\* the request of thread t, to be completed with a status
Req(t) ==
  [Resp(loc[t].op, loc[t].sid, loc[t].data, 0) EXCEPT !.inm = loc[t].inm]

\* ---- create_service
\* lines 60-76: validate, draw the id, build the dict
Create60(t) ==
  /\ pc[t] = "create60"
  /\ IF Missing(loc[t].data) # <<>>
     THEN /\ Return(t, [Req(t) EXCEPT !.status = 400,
                                      !.fields = Missing(loc[t].data)])
          /\ UNCHANGED <<heap, issued>>
     ELSE \E sid \in uuid4 :
            /\ issued' = issued \cup {sid}
            /\ heap' = [heap EXCEPT
                          ![sid] = NewService(sid, loc[t].data, now_iso(clock))]
            /\ Goto(t, "create77", [loc[t] EXCEPT !.sid = sid, !.service = sid])
            /\ UNCHANGED <<resp, nops>>
  /\ UNCHANGED <<services, clock, feed, created, deleted>>

\* line 77: services[sid] = service
Create77(t) ==
  /\ pc[t] = "create77"
  /\ services' = DictSet(services, loc[t].sid)
  /\ Goto(t, "bcast29", loc[t])
  /\ UNCHANGED <<heap, issued, clock, feed, resp, nops, created, deleted>>

\* line 29: msg = json.dumps(event), which reads the dict now
Bcast29(t) ==
  /\ pc[t] = "bcast29"
  /\ Goto(t, "bcast31", [loc[t] EXCEPT !.msg = heap[loc[t].service]])
  /\ UNCHANGED <<services, heap, issued, clock, feed, resp, nops, created,
                 deleted>>

\* line 31: list(ws_clients), the snapshot the loop runs over
Bcast31(t) ==
  /\ pc[t] = "bcast31"
  /\ Goto(t, "bcast33", [loc[t] EXCEPT !.todo = ws_clients, !.dead = {}])
  /\ UNCHANGED <<services, heap, issued, clock, feed, resp, nops, created,
                 deleted>>

\* lines 32-35: one turn of the loop, in the set's (arbitrary) order
Bcast33(t) ==
  /\ pc[t] = "bcast33"
  /\ \E h \in loc[t].todo :
       IF alive[h]
       THEN /\ inbox' = [inbox EXCEPT ![h] = Append(@, CreatedMsg(loc[t].msg))]
            /\ Goto(t, "bcast33", [loc[t] EXCEPT !.todo = @ \ {h}])
       ELSE /\ Goto(t, "bcast33", [loc[t] EXCEPT !.todo = @ \ {h},
                                                 !.dead = @ \cup {h}])
            /\ UNCHANGED inbox
  /\ UNCHANGED <<services, heap, issued, clock, ws_clients, wspc, alive,
                 resp, nops, created, deleted>>

\* lines 36-37: the loop is over; discard the dead
Bcast36(t) ==
  /\ pc[t] = "bcast33"
  /\ loc[t].todo = {}
  /\ ws_clients' = ws_clients \ loc[t].dead
  /\ Goto(t, "create82", [loc[t] EXCEPT !.dead = {}, !.msg = NoObj])
  /\ UNCHANGED <<services, heap, issued, clock, wspc, alive, inbox, resp,
                 nops, created, deleted>>

\* lines 82-85: jsonify(service), which reads the dict now
Create82(t) ==
  /\ pc[t] = "create82"
  /\ Return(t, [Req(t) EXCEPT !.status = 201, !.body = heap[loc[t].service]])
  /\ created' = Append(created, loc[t].sid)
  /\ heap' = Sweep(heap, services, loc')
  /\ UNCHANGED <<services, issued, clock, feed, deleted>>

\* ---- get_service
\* lines 99-101: service = services.get(sid)
Get99(t) ==
  /\ pc[t] = "get99"
  /\ IF ~DictHas(services, loc[t].sid)
     THEN Return(t, [Req(t) EXCEPT !.status = 404])
     ELSE /\ Goto(t, "get103", [loc[t] EXCEPT !.service = loc[t].sid])
          /\ UNCHANGED <<resp, nops>>
  /\ UNCHANGED <<services, heap, issued, clock, feed, created, deleted>>

\* line 103: etag = compute_etag(service), which reads the dict now
Get103(t) ==
  /\ pc[t] = "get103"
  /\ Goto(t, "get115", [loc[t] EXCEPT !.etag = compute_etag(heap[loc[t].service])])
  /\ UNCHANGED <<services, heap, issued, clock, feed, resp, nops, created,
                 deleted>>

\* lines 109-118: 304, or jsonify(service), which reads the dict now
Get115(t) ==
  /\ pc[t] = "get115"
  /\ IF loc[t].inm # NoHeader /\ loc[t].inm = loc[t].etag
     THEN Return(t, [Req(t) EXCEPT !.status = 304, !.etag = loc[t].etag])
     ELSE Return(t, [Req(t) EXCEPT !.status = 200, !.etag = loc[t].etag,
                                   !.body = heap[loc[t].service]])
  /\ heap' = Sweep(heap, services, loc')
  /\ UNCHANGED <<services, issued, clock, feed, created, deleted>>

\* ---- put_service
\* lines 123-130: the existence check, then the validation
Put123(t) ==
  /\ pc[t] = "put123"
  /\ IF ~DictHas(services, loc[t].sid)
     THEN Return(t, [Req(t) EXCEPT !.status = 404])
     ELSE IF Missing(loc[t].data) # <<>>
     THEN Return(t, [Req(t) EXCEPT !.status = 400,
                                   !.fields = Missing(loc[t].data)])
     ELSE /\ Goto(t, "put132", loc[t])
          /\ UNCHANGED <<resp, nops>>
  /\ UNCHANGED <<services, heap, issued, clock, feed, created, deleted>>

\* line 132: service = services[sid], a KeyError when the key has gone
Put132(t) ==
  /\ pc[t] = "put132"
  /\ IF ~DictHas(services, loc[t].sid)
     THEN Return(t, [Req(t) EXCEPT !.status = 500])
     ELSE /\ Goto(t, "put133", [loc[t] EXCEPT !.service = loc[t].sid, !.i = 1])
          /\ UNCHANGED <<resp, nops>>
  /\ UNCHANGED <<services, heap, issued, clock, feed, created, deleted>>

\* lines 133-137: the i-th of the five assignments
Put133(t) ==
  /\ pc[t] = "put133"
  /\ LET k == patchable[loc[t].i] IN
     heap' = [heap EXCEPT ![loc[t].service] =
                SetField(@, k, PutValue(loc[t].data, k))]
  /\ Goto(t, IF loc[t].i = Len(patchable) THEN "put138" ELSE "put133",
          [loc[t] EXCEPT !.i = @ + 1,
                         !.pre = IF loc[t].i = 1 THEN heap[loc[t].service]
                                 ELSE @])
  /\ UNCHANGED <<services, issued, clock, feed, resp, nops, created, deleted>>

\* line 138, the call: now_iso()
Put138(t) ==
  /\ pc[t] = "put138"
  /\ Goto(t, "put138w", [loc[t] EXCEPT !.now = now_iso(clock), !.i = 0])
  /\ UNCHANGED <<services, heap, issued, clock, feed, resp, nops, created,
                 deleted>>

\* line 138, the store: service["updatedAt"] = ...
Put138w(t) ==
  /\ pc[t] = "put138w"
  /\ heap' = [heap EXCEPT ![loc[t].service] =
                SetField(@, "updatedAt", loc[t].now)]
  /\ Goto(t, "put139", [loc[t] EXCEPT !.now = 0, !.pre = NoObj])
  /\ UNCHANGED <<services, issued, clock, feed, resp, nops, created, deleted>>

\* line 139: services[sid] = service
Put139(t) ==
  /\ pc[t] = "put139"
  /\ services' = DictSet(services, loc[t].sid)
  /\ Goto(t, "put141", loc[t])
  /\ UNCHANGED <<heap, issued, clock, feed, resp, nops, created, deleted>>

\* line 141: jsonify(service), which reads the dict now
Put141(t) ==
  /\ pc[t] = "put141"
  /\ Return(t, [Req(t) EXCEPT !.status = 200, !.body = heap[loc[t].service]])
  /\ heap' = Sweep(heap, services, loc')
  /\ UNCHANGED <<services, issued, clock, feed, created, deleted>>

\* ---- patch_service
\* The first key of `patchable`, from the i-th on, that the body carries;
\* Len(patchable) + 1 when there is none.
RECURSIVE NextKey(_, _)
NextKey(data, i) ==
  IF i > Len(patchable) \/ patchable[i] \in DOMAIN data THEN i
  ELSE NextKey(data, i + 1)

\* lines 146-150: service = services.get(sid)
Patch146(t) ==
  /\ pc[t] = "patch146"
  /\ IF ~DictHas(services, loc[t].sid)
     THEN Return(t, [Req(t) EXCEPT !.status = 404])
     ELSE /\ Goto(t, IF NextKey(loc[t].data, 1) > Len(patchable)
                     THEN "patch155" ELSE "patch151",
                  [loc[t] EXCEPT !.service = loc[t].sid,
                                 !.i = NextKey(loc[t].data, 1)])
          /\ UNCHANGED <<resp, nops>>
  /\ UNCHANGED <<services, heap, issued, clock, feed, created, deleted>>

\* lines 151-153: the next turn of the loop that assigns
Patch151(t) ==
  /\ pc[t] = "patch151"
  /\ heap' = [heap EXCEPT ![loc[t].service] =
                PatchField(@, loc[t].data, patchable[loc[t].i])]
  /\ Goto(t, IF NextKey(loc[t].data, loc[t].i + 1) > Len(patchable)
             THEN "patch155" ELSE "patch151",
          [loc[t] EXCEPT !.i = NextKey(loc[t].data, loc[t].i + 1),
                         !.pre = IF loc[t].i = NextKey(loc[t].data, 1)
                                 THEN heap[loc[t].service] ELSE @])
  /\ UNCHANGED <<services, issued, clock, feed, resp, nops, created, deleted>>

\* line 155, the call: now_iso()
Patch155(t) ==
  /\ pc[t] = "patch155"
  /\ Goto(t, "patch155w", [loc[t] EXCEPT !.now = now_iso(clock), !.i = 0])
  /\ UNCHANGED <<services, heap, issued, clock, feed, resp, nops, created,
                 deleted>>

\* line 155, the store: service["updatedAt"] = ...
Patch155w(t) ==
  /\ pc[t] = "patch155w"
  /\ heap' = [heap EXCEPT ![loc[t].service] =
                SetField(@, "updatedAt", loc[t].now)]
  /\ Goto(t, "patch156", [loc[t] EXCEPT !.now = 0, !.pre = NoObj])
  /\ UNCHANGED <<services, issued, clock, feed, resp, nops, created, deleted>>

\* line 156: services[sid] = service
Patch156(t) ==
  /\ pc[t] = "patch156"
  /\ services' = DictSet(services, loc[t].sid)
  /\ Goto(t, "patch157", loc[t])
  /\ UNCHANGED <<heap, issued, clock, feed, resp, nops, created, deleted>>

\* line 157: jsonify(service), which reads the dict now
Patch157(t) ==
  /\ pc[t] = "patch157"
  /\ Return(t, [Req(t) EXCEPT !.status = 200, !.body = heap[loc[t].service]])
  /\ heap' = Sweep(heap, services, loc')
  /\ UNCHANGED <<services, issued, clock, feed, created, deleted>>

\* ---- delete_service
\* lines 162-163: the existence check
Del162(t) ==
  /\ pc[t] = "del162"
  /\ IF ~DictHas(services, loc[t].sid)
     THEN Return(t, [Req(t) EXCEPT !.status = 404])
     ELSE /\ Goto(t, "del164", loc[t])
          /\ UNCHANGED <<resp, nops>>
  /\ UNCHANGED <<services, heap, issued, clock, feed, created, deleted>>

\* lines 164-165: del services[sid], a KeyError when the key has gone
Del164(t) ==
  /\ pc[t] = "del164"
  /\ IF ~DictHas(services, loc[t].sid)
     THEN /\ Return(t, [Req(t) EXCEPT !.status = 500])
          /\ UNCHANGED <<services, heap, deleted>>
     ELSE /\ Return(t, [Req(t) EXCEPT !.status = 204])
          /\ services' = DictDel(services, loc[t].sid)
          /\ deleted' = deleted \cup {loc[t].sid}
          /\ heap' = Sweep(heap, services', loc')
  /\ UNCHANGED <<issued, clock, feed, created>>

\* ---- ws_endpoint, in the connection's own thread
\* line 174: ws_clients.add(ws), the upgrade (101) behind it
Ws174(h) ==
  /\ wspc[h] = "new"
  /\ nops + Busy < MaxOps
  /\ nops' = nops + 1
  /\ resp' = Resp("ws", "", <<>>, 101)
  /\ ws_clients' = ws_clients \cup {h}
  /\ wspc' = [wspc EXCEPT ![h] = "joined"]
  /\ UNCHANGED <<services, heap, issued, clock, alive, inbox, created,
                 deleted, threads>>

\* A slip Ws176 could have: the send outside the try, so that its
\* exception ends the handler past the finally clause.
Ws176_NoFinally(h) ==
  /\ wspc[h] = "joined"
  /\ \/ /\ alive[h]
        /\ inbox' = [inbox EXCEPT ![h] = Append(@, ConnectedMsg)]
        /\ wspc' = [wspc EXCEPT ![h] = "recv"]
        /\ UNCHANGED alive
     \/ /\ alive' = [alive EXCEPT ![h] = FALSE]
        /\ wspc' = [wspc EXCEPT ![h] = "done"]
        /\ UNCHANGED inbox
  /\ UNCHANGED <<services, heap, issued, clock, ws_clients, resp, nops,
                 created, deleted, threads>>

\* line 176: send the acknowledgement; or the peer is gone and send raises
Ws176(h) ==
  /\ wspc[h] = "joined"
  /\ \/ /\ alive[h]
        /\ inbox' = [inbox EXCEPT ![h] = Append(@, ConnectedMsg)]
        /\ wspc' = [wspc EXCEPT ![h] = "recv"]
        /\ UNCHANGED alive
     \/ /\ alive' = [alive EXCEPT ![h] = FALSE]
        /\ wspc' = [wspc EXCEPT ![h] = "fin"]
        /\ UNCHANGED inbox
  /\ UNCHANGED <<services, heap, issued, clock, ws_clients, resp, nops,
                 created, deleted, threads>>

\* lines 177-180: receive() ends the loop, by None or by an exception
Ws178(h) ==
  /\ wspc[h] = "recv"
  /\ ~alive[h]
  /\ wspc' = [wspc EXCEPT ![h] = "fin"]
  /\ UNCHANGED <<services, heap, issued, clock, ws_clients, alive, inbox,
                 resp, nops, created, deleted, threads>>

\* line 182: ws_clients.discard(ws)
Ws182(h) ==
  /\ wspc[h] = "fin"
  /\ ws_clients' = ws_clients \ {h}
  /\ wspc' = [wspc EXCEPT ![h] = "done"]
  /\ UNCHANGED <<services, heap, issued, clock, alive, inbox, resp, nops,
                 created, deleted, threads>>

\* the steps of request thread t
Step(t) ==
  \/ Create60(t) \/ Create77(t) \/ Bcast29(t) \/ Bcast31(t) \/ Bcast33(t)
  \/ Bcast36(t) \/ Create82(t)
  \/ Get99(t) \/ Get103(t) \/ Get115(t)
  \/ Put123(t) \/ Put132(t) \/ Put133(t) \/ Put138(t) \/ Put138w(t)
  \/ Put139(t) \/ Put141(t)
  \/ Patch146(t) \/ Patch151(t) \/ Patch155(t) \/ Patch155w(t)
  \/ Patch156(t) \/ Patch157(t)
  \/ Del162(t) \/ Del164(t)

NextConc ==
  \/ Tick
  \/ \E h \in Handles : ConnLost(h)
  \/ \E t \in Threads, data \in ConcBodies : Begin(t, "create", "", data, NoHeader)
  \/ \E t \in Threads, sid \in RequestIds, inm \in ConcPreconditions :
       Begin(t, "get", sid, <<>>, inm)
  \/ \E t \in Threads, sid \in RequestIds, data \in ConcBodies :
       Begin(t, "put", sid, data, NoHeader)
  \/ \E t \in Threads, sid \in RequestIds, data \in ConcBodies :
       Begin(t, "patch", sid, data, NoHeader)
  \/ \E t \in Threads, sid \in RequestIds :
       Begin(t, "delete", sid, <<>>, NoHeader)
  \/ \E t \in Threads : Step(t)
  \/ \E h \in Handles : Ws174(h) \/ Ws176(h) \/ Ws178(h) \/ Ws182(h)

SpecConc == Init /\ [][NextConc]_vars

\* ------------------------------------------------------------ claims
\* A step in which the handler `op` ran to completion.
Did(op) == nops' = nops + 1 /\ resp'.op = op

\* The required keys a body lacks or carries empty.
Lacking(data) ==
  {k \in {"type", "name", "address"} : k \notin DOMAIN data \/ data[k] = ""}

\* C1: a get with no precondition on the id a successful create has just
\* returned (nothing in between) answers 200 with the record the create
\* returned, field for field; that record has the generated id, the
\* supplied type, name and address, and empty hours and phone where the
\* request gave none.
C1_GetAfterCreate ==
  [][ /\ (Did("create") /\ resp'.status = 201) =>
           /\ resp'.body.id = resp'.sid
           /\ \A k \in {"type", "name", "address"} :
                resp'.body[k] = resp'.data[k]
           /\ \A k \in {"hours", "phone"} :
                k \notin DOMAIN resp'.data => resp'.body[k] = ""
      /\ (/\ resp.op = "create" /\ resp.status = 201
          /\ Did("get") /\ resp'.sid = resp.sid /\ resp'.inm = NoHeader) =>
           /\ resp'.status = 200
           /\ resp'.body = resp.body ]_vars

C1_Witness ==
  /\ nops = 2
  /\ resp.op = "get" /\ resp.status = 200 /\ resp.inm = NoHeader
  /\ resp.body.id = "u1" /\ resp.body.hours = "" /\ resp.body.type = "clinic"

\* C2: a create whose body lacks type, name or address, or carries one of
\* them empty, answers 400 with exactly the lacking field names, and leaves
\* the registry, the subscriber set and every subscriber's inbox as they
\* were.
C2_CreateRejected ==
  [][ (Did("create") /\ Lacking(resp'.data) # {}) =>
        /\ resp'.status = 400
        /\ DictKeys(resp'.fields) = Lacking(resp'.data)
        /\ Len(resp'.fields) = Cardinality(Lacking(resp'.data))
        /\ services' = services /\ heap' = heap
        /\ ws_clients' = ws_clients /\ inbox' = inbox ]_vars

C2_Witness ==
  /\ resp.op = "create" /\ resp.status = 400
  /\ resp.fields = <<"name">>
  /\ services # <<>>
  /\ ws_clients # {}

\* C3: no two successful creates return the same id, whatever was deleted
\* in between.
C3_IdsNeverReused ==
  \A i, j \in 1..Len(created) : i # j => created[i] # created[j]

C3_Witness ==
  /\ Len(created) = 2
  /\ created[1] \in deleted
  /\ DictHas(services, created[2])

\* C4: every stored record has type, name and address non-empty.
C4_RequiredNonEmpty ==
  \A i \in 1..Len(services) :
    \A k \in {"type", "name", "address"} : heap[services[i]][k] # ""

\* C5: a patch of a stored id writes the fields among type, name, address,
\* hours, phone that its body carries, and updatedAt; the record's other
\* fields (id among them), the other records, the key order and the
\* subscribers are as before.
C5_PatchFrame ==
  [][ (Did("patch") /\ resp'.status = 200) =>
        LET sid == resp'.sid
            data == resp'.data
        IN  /\ \A k \in {"type", "name", "address", "hours", "phone"} :
                 heap'[sid][k] = IF k \in DOMAIN data THEN data[k]
                                 ELSE heap[sid][k]
            /\ heap'[sid].id = heap[sid].id
            /\ heap'[sid].updatedAt = clock
            /\ \A o \in Ids \ {sid} : heap'[o] = heap[o]
            /\ services' = services
            /\ ws_clients' = ws_clients /\ inbox' = inbox
            /\ resp'.body = heap'[sid] ]_vars

C5_Witness ==
  /\ resp.op = "patch" /\ resp.status = 200
  /\ resp.data = [hours |-> "", id |-> "zz"]
  /\ heap[resp.sid].phone = "x" /\ heap[resp.sid].hours = ""
  /\ heap[resp.sid].id = resp.sid
  /\ heap[resp.sid].updatedAt = 1

\* What a replace with body `data` leaves in the id's record.
Replaced(sid, data, body) ==
  /\ body.id = sid
  /\ \A k \in {"type", "name", "address"} : body[k] = data[k]
  /\ \A k \in {"hours", "phone"} :
       body[k] = IF k \in DOMAIN data THEN data[k] ELSE ""

\* C6 as stated: a successful replace stores exactly the supplied content
\* (omitted hours and phone reset to empty, id kept) with an updatedAt
\* strictly later than the one before it, and a get right after returns it.
C6_ReplaceStrictlyLater ==
  [][ /\ (Did("put") /\ resp'.status = 200) =>
           /\ Replaced(resp'.sid, resp'.data, heap'[resp'.sid])
           /\ heap'[resp'.sid].updatedAt > heap[resp'.sid].updatedAt
      /\ (/\ resp.op = "put" /\ resp.status = 200
          /\ Did("get") /\ resp'.sid = resp.sid /\ resp'.inm = NoHeader) =>
           /\ resp'.status = 200
           /\ resp'.body = resp.body ]_vars

\* C6 amended: as above, with an updatedAt that is the clock reading of the
\* replace, hence not earlier than the one before it, and strictly later
\* exactly when the clock has advanced since the record was last stamped.
C6_ReplaceRoundTrip ==
  [][ /\ (Did("put") /\ resp'.status = 200) =>
           /\ Replaced(resp'.sid, resp'.data, heap'[resp'.sid])
           /\ resp'.body = heap'[resp'.sid]
           /\ heap'[resp'.sid].updatedAt = clock
           /\ heap'[resp'.sid].updatedAt >= heap[resp'.sid].updatedAt
      /\ (/\ resp.op = "put" /\ resp.status = 200
          /\ Did("get") /\ resp'.sid = resp.sid /\ resp'.inm = NoHeader) =>
           /\ resp'.status = 200
           /\ resp'.body = resp.body ]_vars

C6_Witness ==
  /\ resp.op = "put" /\ resp.status = 200
  /\ resp.body.type = "clinic" /\ resp.body.hours = ""
  /\ resp.body.updatedAt = 1
  /\ \E h \in Handles :
       /\ Len(inbox[h]) = 2
       /\ inbox[h][2].service.type = "shelter"
       /\ inbox[h][2].service.hours = "x"
       /\ inbox[h][2].service.updatedAt = 0

\* C7: a successful delete removes its id and nothing else; from then on a
\* get and a delete of that id answer 404, and the 404 delete leaves the
\* registry as it was.
C7_DeleteThenNotFound ==
  [][ /\ (Did("delete") /\ resp'.status = 204) =>
           /\ DictHas(services, resp'.sid)
           /\ ~DictHas(services', resp'.sid)
           /\ services' = SelectSeq(services, LAMBDA k : k # resp'.sid)
           /\ \A o \in DictKeys(services') : heap'[o] = heap[o]
      /\ (Did("get") /\ resp'.sid \in deleted) => resp'.status = 404
      /\ (Did("delete") /\ resp'.sid \in deleted) =>
           /\ resp'.status = 404
           /\ services' = services /\ heap' = heap ]_vars

C7_Witness ==
  /\ resp.op = "delete" /\ resp.status = 404
  /\ resp.sid \in deleted

\* C10: on a successful create every subscriber in the set whose send
\* succeeds receives one more message, the serviceCreated event carrying
\* the record the caller is returned, which is the record stored; nobody
\* else receives anything.
C10_CreatedEvent ==
  [][ (Did("create") /\ resp'.status = 201) =>
        /\ resp'.body = heap'[resp'.sid]
        /\ \A h \in Handles :
             inbox'[h] =
               IF h \in ws_clients /\ alive[h]
               THEN Append(inbox[h], [event |-> "serviceCreated",
                                      service |-> resp'.body])
               ELSE inbox[h] ]_vars

C10_Witness ==
  /\ resp.op = "create" /\ resp.status = 201
  /\ \E h \in Handles :
       /\ Len(inbox[h]) = 2
       /\ inbox[h][1].event = "connected"
       /\ inbox[h][2] = [event |-> "serviceCreated", service |-> resp.body]
  /\ \E h \in Handles : wspc[h] = "recv" /\ ~alive[h] /\ Len(inbox[h]) = 1

\* C8: an id that a delete has removed is never a key of the registry
\* again, whatever handlers were running when it was removed.
C8_DeletedStaysDeleted ==
  \A sid \in deleted : ~DictHas(services, sid)

\* What the record holds once writer w has made all its stores, were it
\* alone, if its stamp is c.
FinalOf(w, c) ==
  IF loc[w].op = "put" THEN PutFields(loc[w].pre, loc[w].data, c)
  ELSE PatchFields(loc[w].pre, loc[w].data, c)

\* C9: the record a get returns while a replace or patch of that record is
\* between its first store and its last is the record as it was before the
\* writer's first store, or as it is after its last: never one with only
\* some of the stores made.
C9_NoTornRead ==
  [][ \A r \in Threads :
        (pc[r] = "get115" /\ pc'[r] = "idle" /\ resp'.status = 200) =>
          \A w \in Threads \ {r} :
            (loc[w].pre # NoObj /\ loc[w].service = loc[r].service) =>
              resp'.body \in {loc[w].pre} \cup {FinalOf(w, c) : c \in Times}
    ]_vars

\* C11: in a successful create's publish, a member of the set whose send
\* fails keeps no other member from receiving the event, the create still
\* answers 201 with the record stored, and the failed member is out of the
\* set afterwards; a handle that is out of the set after having joined is
\* never in it again, so no later publish sends to it.
C11_FailureIsolated ==
  [][ /\ (Did("create") /\ Lacking(resp'.data) = {}) =>
           /\ resp'.status = 201
           /\ DictHas(services', resp'.sid)
           /\ heap'[resp'.sid] = resp'.body
           /\ \A h \in ws_clients :
                IF alive[h]
                THEN /\ inbox'[h] = Append(inbox[h], CreatedMsg(resp'.body))
                     /\ h \in ws_clients'
                ELSE /\ inbox'[h] = inbox[h]
                     /\ h \notin ws_clients'
      /\ \A h \in Handles :
           (wspc[h] # "new" /\ h \notin ws_clients) => h \notin ws_clients'
    ]_vars

\* A create has been acknowledged with one subscriber's send failed: that
\* subscriber, its handler still in receive(), is out of the set, and the
\* other one has the event.
C11_Witness ==
  /\ resp.op = "create" /\ resp.status = 201
  /\ DictHas(services, resp.sid)
  /\ \E h, g \in Handles :
       /\ wspc[h] = "recv" /\ ~alive[h] /\ h \notin ws_clients
       /\ Len(inbox[h]) = 1
       /\ g \in ws_clients /\ alive[g]
       /\ Len(inbox[g]) = 2
       /\ inbox[g][2] = CreatedMsg(resp.body)

\* C12: the first message a subscriber receives is the connected
\* acknowledgement, whatever creates run while it joins.
C12_ConnectedFirst ==
  \A h \in Handles : inbox[h] # <<>> => inbox[h][1] = ConnectedMsg

InCreationOrder ==
  LET live == SelectSeq(created, LAMBDA k : DictHas(services, k))
  IN  [i \in 1..Len(live) |-> heap[live[i]]]

\* C14 as stated: a list with a type filter, whatever its value, returns
\* exactly the stored records of that type, and a list with none returns
\* them all, both in creation order.
C14_ListExact ==
  [][ Did("list") =>
        resp'.items =
          IF resp'.data # <<>>
          THEN SelectSeq(InCreationOrder, LAMBDA s : s.type = resp'.data[1])
          ELSE InCreationOrder ]_vars

\* C14 amended: the registry keeps the stored records in creation order
\* through every create, replace, patch and delete; a list with a
\* non-empty type filter returns exactly the stored records of that type,
\* and a list with no filter or an empty one returns them all, in that
\* order.
C14_ListFilter ==
  [][ /\ DictValues(services', heap') = InCreationOrder'
      /\ Did("list") =>
           resp'.items =
             IF resp'.data # <<>> /\ resp'.data[1] # ""
             THEN SelectSeq(InCreationOrder, LAMBDA s : s.type = resp'.data[1])
             ELSE InCreationOrder ]_vars

\* A list filtered by clinic has returned the one clinic of two stored
\* records, the other being a shelter.
C14_Witness ==
  /\ resp.op = "list" /\ resp.data = <<"clinic">>
  /\ Len(services) = 2
  /\ Len(resp.items) = 1
  /\ resp.items[1] = heap[services[2]]
  /\ heap[services[1]].type = "shelter"

\* C15: a replace, a patch or a delete, whether it answers 200, 204, 400
\* or 404, sends no message to any subscriber and leaves the subscriber
\* set as it was.
C15_OnlyCreatePublishes ==
  [][ (Did("put") \/ Did("patch") \/ Did("delete")) =>
        /\ inbox' = inbox
        /\ ws_clients' = ws_clients ]_vars

\* A subscriber has seen a record created, and the record's delete has
\* been answered 204: the subscriber has the two messages it had.
C15_Witness ==
  /\ resp.op = "delete" /\ resp.status = 204
  /\ \E h \in ws_clients :
       /\ alive[h]
       /\ Len(inbox[h]) = 2
       /\ inbox[h][1] = ConnectedMsg
       /\ inbox[h][2].event = "serviceCreated"
       /\ inbox[h][2].service.id = resp.sid

\* C16: no store into a record lowers its updatedAt, however the writers
\* interleave (the clock of the model never goes backwards).
C16_UpdatedAtMonotone ==
  [][ \A o \in Ids :
        (heap[o] # NoObj /\ heap'[o] # NoObj) =>
          heap'[o].updatedAt >= heap[o].updatedAt ]_vars

\* C17: every request completes with a success (200, 201, 204, 304),
\* NotFound (404) or ValidationError (400): none ends in an exception
\* nobody caught (500), whatever runs beside it.
C17_TypedOutcomes ==
  resp.op \in {"get", "put", "patch", "delete"} =>
    resp.status \in {200, 204, 304, 400, 404}

\* C18: a connection whose handler has ended, by receive() ending or by
\* the acknowledgement failing, is not in the subscriber set, whatever
\* broadcasts run beside it.
C18_EndedNotSubscribed ==
  \A h \in Handles : wspc[h] = "done" => h \notin ws_clients

\* One handler has ended on a failed acknowledgement; another has ended
\* after its peer was lost while a broadcast, still running, had it in
\* its snapshot and has put it among its dead.
C18_Witness ==
  \E h, g \in Handles :
    /\ wspc[h] = "done" /\ inbox[h] = <<>>
    /\ wspc[g] = "done" /\ inbox[g] = <<ConnectedMsg>>
    /\ \E t \in Threads : pc[t] = "bcast33" /\ g \in loc[t].dead

\* C19: a GraphQL services(type) query returns what a REST list with the
\* same filter returns, and a GraphQL service(id) query returns what a
\* REST get of the id returns, nothing (NoObj) when that is NotFound.
C19_GraphqlAsRest ==
  [][ /\ Did("services") =>
           LET items == DictValues(services, heap) IN
           resp'.items =
             IF Given1(resp'.data)
             THEN SelectSeq(items, LAMBDA s : s.type = resp'.data[1])
             ELSE items
      /\ Did("service") =>
           resp'.body = DictGet(services, heap, resp'.sid) ]_vars

====
